---- MODULE Spec2Model ----
(***************************************************************************)
(* A model of redBlackTree.py: the RedBlackTree class (sentinel, rotations,*)
(* insert / insert_fixup, rb_transplant, delete_node / fix_delete and the  *)
(* queries), as a heap of Node objects indexed by object identity.         *)
(***************************************************************************)
EXTENDS Integers, Naturals, FiniteSets, Sequences, TLC

\* tree:    the RedBlackTree object and every Node object it references
\* present: the keys inserted and not deleted since (history, not program state)
\* nops:    the number of calls made so far
\* op:      the method called last
\* ret:     what the last call returned
\* out:     what the last call printed
\* pc:      the loop the call in progress is in, "idle" between two calls
\* local:   the local variables of the call in progress
VARIABLES tree, present, nops, op, ret, out, pc, local

vars == <<tree, present, nops, op, ret, out, pc, local>>

(* ---------------------------- bounds ----------------------------------- *)
\* keys passed to insert / delete_node / find are drawn from 1..MaxKey
MaxKey == 5
\* number of insert / delete_node calls in a behaviour of Spec
MaxOps == 8
\* number of insert / delete_node calls in a behaviour of SpecDeep, which
\* leaves out the calls that fail
MaxOpsDeep == 14
\* number of insert / delete_node calls in a behaviour of SpecQ
MaxOpsQ == 7
\* number of calls in a behaviour of SpecDriver: those of the driver and the
\* ones a caller makes after them
MaxOpsDriver == 13
\* number of calls in a behaviour of SpecSteps: those of Churn and the ones a
\* caller makes after them
MaxOpsSteps == 19
\* number of insert / delete_node / left_rotate / right_rotate calls in a
\* behaviour of SpecRotate
MaxOpsRotate == 5

Keys == 1..MaxKey

Max2(a, b) == IF a >= b THEN a ELSE b

(* ---------------------------- the heap --------------------------------- *)
\* Node.color: 1 is Red, 0 is Black
RED == 1
BLACK == 0

\* identity of the sentinel object self.nil
nil == 0

\* identities of Node objects: the sentinel and one per call of the longest
\* behaviour, so that Node(key) always finds an identity no live object has
NumIds ==
  Max2(MaxKey, Max2(MaxOps, Max2(MaxOpsDeep, Max2(MaxOpsQ,
    Max2(MaxOpsDriver, Max2(MaxOpsSteps, MaxOpsRotate))))))
Ids == 0..NumIds

\* what the methods return when they fall off their end or hit a bare return:
\* a value that is no object identity
None == -1

\* the fields of a Node object right after Node(key), with the three links
\* already pointed at the sentinel as insert does before it uses the node
NewNode(key) ==
  [key |-> key, color |-> RED, parent |-> nil, left |-> nil, right |-> nil]

\* RedBlackTree.__init__: the sentinel is Node(0), BLACK, its three links refer
\* to itself, and root is the sentinel.  Identities that hold no object carry
\* the same all-zero record.
EmptyTree ==
  [root   |-> nil,
   key    |-> [i \in Ids |-> 0],
   color  |-> [i \in Ids |-> BLACK],
   parent |-> [i \in Ids |-> nil],
   left   |-> [i \in Ids |-> nil],
   right  |-> [i \in Ids |-> nil]]

\* the element of a one-element set.  The methods below are written as
\* pipelines {f(v) : v \in {e}}: v is the value of e, computed once, as a local
\* variable holds the value assigned to it.
The(S) == CHOOSE v \in S : TRUE

\* the objects referenced by the objects of S
Links(T, S) == S \cup {T.left[i] : i \in S} \cup {T.right[i] : i \in S}
                 \cup {T.parent[i] : i \in S}

RECURSIVE ReachFrom(_, _)
ReachFrom(T, S) ==
  The({IF S2 = S THEN S ELSE ReachFrom(T, S2) : S2 \in {Links(T, S)}})

\* the objects the program still holds a reference to between two calls:
\* those reachable from self.nil and self.root
Live(T) == ReachFrom(T, {nil, T.root})

\* the identity given to the object Node(key) creates: one no live object
\* has, the first such counting up from key and wrapping round
Slot(i, key) == (i - key) % NumIds

Alloc(T, key) ==
  The({CHOOSE i \in free : \A j \in free : Slot(i, key) <= Slot(j, key) :
         free \in {(Ids \ {nil}) \ Live(T)}})

\* objects no reference leads to any more are reclaimed
Collect(T) ==
  The({[root   |-> T.root,
        key    |-> [i \in Ids |-> IF i \in live THEN T.key[i] ELSE 0],
        color  |-> [i \in Ids |-> IF i \in live THEN T.color[i] ELSE BLACK],
        parent |-> [i \in Ids |-> IF i \in live THEN T.parent[i] ELSE nil],
        left   |-> [i \in Ids |-> IF i \in live THEN T.left[i] ELSE nil],
        right  |-> [i \in Ids |-> IF i \in live THEN T.right[i] ELSE nil]] :
         live \in {Live(T)}})

(* ---------------------------- queries ---------------------------------- *)
RECURSIVE minimum(_, _)
minimum(T, node) ==
  IF T.left[node] /= nil THEN minimum(T, T.left[node]) ELSE node

RECURSIVE maximum(_, _)
maximum(T, node) ==
  IF T.right[node] /= nil THEN maximum(T, T.right[node]) ELSE node

\* the upward walk of successor: while y != nil and x == y.right
RECURSIVE successor_up(_, _, _)
successor_up(T, x, y) ==
  IF y /= nil /\ x = T.right[y] THEN successor_up(T, y, T.parent[y]) ELSE y

successor(T, x) ==
  IF T.right[x] /= nil THEN minimum(T, T.right[x])
  ELSE successor_up(T, x, T.parent[x])

\* the upward walk of predecessor: while y != nil and x == y.left
RECURSIVE predecessor_up(_, _, _)
predecessor_up(T, x, y) ==
  IF y /= nil /\ x = T.left[y] THEN predecessor_up(T, y, T.parent[y]) ELSE y

predecessor(T, x) ==
  IF T.left[x] /= nil THEN maximum(T, T.left[x])
  ELSE predecessor_up(T, x, T.parent[x])

RECURSIVE find_helper(_, _, _)
find_helper(T, key, node) ==
  IF node = nil \/ T.key[node] = key THEN node
  ELSE IF key < T.key[node] THEN find_helper(T, key, T.left[node])
  ELSE find_helper(T, key, T.right[node])

find(T, key) ==
  IF T.root = nil THEN nil ELSE find_helper(T, key, T.root)

RECURSIVE height(_, _)
height(T, node) ==
  IF node = nil THEN 0
  ELSE Max2(height(T, T.left[node]), height(T, T.right[node])) + 1

(* ---------------------------- rotations -------------------------------- *)
\* left_rotate without the update of root (lines 86-87)
left_rotate_keeps_root(T, x) ==
  LET y  == T.right[x]
      S1 == {[T EXCEPT !.right[x] = T.left[y]]}
      S2 == {IF T1.left[y] /= nil
             THEN [T1 EXCEPT !.parent[T1.left[y]] = x] ELSE T1 : T1 \in S1}
      S3 == {[T2 EXCEPT !.parent[y] = T2.parent[x]] : T2 \in S2}
      S4 == {IF T3.parent[x] = nil THEN T3
             ELSE IF x = T3.left[T3.parent[x]]
                  THEN [T3 EXCEPT !.left[T3.parent[x]] = y]
                  ELSE [T3 EXCEPT !.right[T3.parent[x]] = y] : T3 \in S3}
      S5 == {[T4 EXCEPT !.left[y] = x] : T4 \in S4}
  IN  The({[T5 EXCEPT !.parent[x] = y] : T5 \in S5})

\* Each stage Sn holds the tree after one more statement of the method.
left_rotate(T, x) ==
  LET y  == T.right[x]
      S1 == {[T EXCEPT !.right[x] = T.left[y]]}
      S2 == {IF T1.left[y] /= nil
             THEN [T1 EXCEPT !.parent[T1.left[y]] = x] ELSE T1 : T1 \in S1}
      S3 == {[T2 EXCEPT !.parent[y] = T2.parent[x]] : T2 \in S2}
      S4 == {IF T3.parent[x] = nil THEN [T3 EXCEPT !.root = y]
             ELSE IF x = T3.left[T3.parent[x]]
                  THEN [T3 EXCEPT !.left[T3.parent[x]] = y]
                  ELSE [T3 EXCEPT !.right[T3.parent[x]] = y] : T3 \in S3}
      S5 == {[T4 EXCEPT !.left[y] = x] : T4 \in S4}
  IN  The({[T5 EXCEPT !.parent[x] = y] : T5 \in S5})

right_rotate(T, y) ==
  LET x  == T.left[y]
      S1 == {[T EXCEPT !.left[y] = T.right[x]]}
      S2 == {IF T1.right[x] /= nil
             THEN [T1 EXCEPT !.parent[T1.right[x]] = y] ELSE T1 : T1 \in S1}
      S3 == {[T2 EXCEPT !.parent[x] = T2.parent[y]] : T2 \in S2}
      S4 == {IF T3.parent[y] = nil THEN [T3 EXCEPT !.root = x]
             ELSE IF y = T3.left[T3.parent[y]]
                  THEN [T3 EXCEPT !.left[T3.parent[y]] = x]
                  ELSE [T3 EXCEPT !.right[T3.parent[y]] = x] : T3 \in S3}
      S5 == {[T4 EXCEPT !.right[x] = y] : T4 \in S4}
  IN  The({[T5 EXCEPT !.parent[y] = x] : T5 \in S5})

(* ---------------------------- insertion -------------------------------- *)
\* one iteration of the while loop of insert_fixup, entered with z.parent RED:
\* the tree and the z it leaves
insert_fixup_step(T, z) ==
  IF T.parent[z] = T.left[T.parent[T.parent[z]]]
  THEN LET y == T.right[T.parent[T.parent[z]]] IN
       IF T.color[y] = RED
       THEN LET S1 == {[T EXCEPT !.color[T.parent[z]] = BLACK]}
                S2 == {[T1 EXCEPT !.color[y] = BLACK] : T1 \in S1}
                S3 == {[T2 EXCEPT !.color[T2.parent[T2.parent[z]]] = RED] :
                         T2 \in S2}
            IN  The({[T |-> T3, z |-> T3.parent[T3.parent[z]]] : T3 \in S3})
       ELSE LET S1 == {IF z = T.right[T.parent[z]]
                       THEN [T |-> left_rotate(T, T.parent[z]),
                             z |-> T.parent[z]]
                       ELSE [T |-> T, z |-> z]}
                S2 == {[s EXCEPT !.T.color[s.T.parent[s.z]] = BLACK] :
                         s \in S1}
                S3 == {[s EXCEPT
                          !.T.color[s.T.parent[s.T.parent[s.z]]] = RED] :
                         s \in S2}
            IN  The({[s EXCEPT
                        !.T = right_rotate(s.T, s.T.parent[s.T.parent[s.z]])] :
                       s \in S3})
  ELSE LET y == T.left[T.parent[T.parent[z]]] IN
       IF T.color[y] = RED
       THEN LET S1 == {[T EXCEPT !.color[y] = BLACK]}
                S2 == {[T1 EXCEPT !.color[T1.parent[z]] = BLACK] : T1 \in S1}
                S3 == {[T2 EXCEPT !.color[T2.parent[T2.parent[z]]] = RED] :
                         T2 \in S2}
            IN  The({[T |-> T3, z |-> T3.parent[T3.parent[z]]] : T3 \in S3})
       ELSE LET S1 == {IF z = T.left[T.parent[z]]
                       THEN [T |-> right_rotate(T, T.parent[z]),
                             z |-> T.parent[z]]
                       ELSE [T |-> T, z |-> z]}
                S2 == {[s EXCEPT !.T.color[s.T.parent[s.z]] = BLACK] :
                         s \in S1}
                S3 == {[s EXCEPT
                          !.T.color[s.T.parent[s.T.parent[s.z]]] = RED] :
                         s \in S2}
            IN  The({[s EXCEPT
                        !.T = left_rotate(s.T, s.T.parent[s.T.parent[s.z]])] :
                       s \in S3})

RECURSIVE insert_fixup(_, _)
insert_fixup(T, z) ==
  IF T.color[T.parent[z]] = RED
  THEN The({insert_fixup(s.T, s.z) : s \in {insert_fixup_step(T, z)}})
  ELSE [T EXCEPT !.color[T.root] = BLACK]

\* the descent of insert from x with y the node visited before it: the
\* parent-to-be of the new node, or dup when the key is met on the way
RECURSIVE insert_descend(_, _, _, _)
insert_descend(T, key, x, y) ==
  IF x = nil THEN [dup |-> FALSE, y |-> y]
  ELSE IF key < T.key[x] THEN insert_descend(T, key, T.left[x], x)
  ELSE IF key > T.key[x] THEN insert_descend(T, key, T.right[x], x)
  ELSE [dup |-> TRUE, y |-> x]

DupMsg == "key already exists in the tree"

\* lines 129-137 of insert: the new node z is hung under y, the node the
\* descent ended at, or made the BLACK root of an empty tree
insert_attach(T, z, y) ==
  LET S1 == {[T EXCEPT !.parent[z] = y]}
  IN  IF y = nil
      THEN The({[T1 EXCEPT !.root = z, !.color[z] = BLACK] : T1 \in S1})
      ELSE The({IF T1.key[z] < T1.key[y]
                THEN [T1 EXCEPT !.left[y] = z]
                ELSE [T1 EXCEPT !.right[y] = z] : T1 \in S1})

\* insert_link without the call of insert_fixup
insert_link_unfixed(T, z, y) == insert_attach(T, z, y)

\* the end of insert, from z.parent = y on, for a key the descent did not meet
insert_link(T, z, y) ==
  IF y = nil THEN insert_attach(T, z, y)
  ELSE The({insert_fixup(T2, z) : T2 \in {insert_attach(T, z, y)}})

\* lines 112-116 of insert: the heap with the object Node(key) at identity z
insert_new(T, key, z) ==
  The({[T EXCEPT !.key[z] = n.key, !.color[z] = n.color,
                 !.parent[z] = n.parent, !.left[z] = n.left,
                 !.right[z] = n.right] : n \in {NewNode(key)}})

\* insert with z the identity of the node it creates
insert_node(T, key, z) ==
  LET S0 == {insert_new(T, key, z)}
      S1 == {[T |-> T0, d |-> insert_descend(T0, key, T0.root, nil)] :
               T0 \in S0}
  IN  The({IF s.d.dup
           THEN [T |-> s.T, ret |-> None, out |-> DupMsg]
           ELSE [T |-> insert_link(s.T, z, s.d.y), ret |-> None, out |-> ""] :
             s \in S1})

\* insert(key): the tree it leaves, what it returns and what it prints
insert(T, key) ==
  The({insert_node(T, key, z) : z \in {Alloc(T, key)}})

(* ---------------------------- deletion --------------------------------- *)
rb_transplant(T, u, v) ==
  LET S1 == {IF T.parent[u] = nil THEN [T EXCEPT !.root = v]
             ELSE IF u = T.left[T.parent[u]]
                  THEN [T EXCEPT !.left[T.parent[u]] = v]
                  ELSE [T EXCEPT !.right[T.parent[u]] = v]}
  IN  The({[T1 EXCEPT !.parent[v] = T1.parent[u]] : T1 \in S1})

\* fix_delete, x a left child, cases 3 and 4 (lines 256-266)
fix_delete_left_34(T, x) ==
  LET w0 == T.right[T.parent[x]]
      \* case 3
      S1 == {IF T.color[T.right[w0]] = BLACK
             THEN The({right_rotate(Tb, w0) :
                         Tb \in {[Ta EXCEPT !.color[w0] = RED] :
                         Ta \in {[T EXCEPT !.color[T.left[w0]] = BLACK]}}})
             ELSE T}
      \* case 4; w is x.parent.right, re-read by line 260 after case 3 and
      \* the same node as before without it
      S2 == {[T1 EXCEPT !.color[T1.right[T1.parent[x]]] =
                           T1.color[T1.parent[x]]] : T1 \in S1}
      S3 == {[T |-> [T2 EXCEPT !.color[T2.parent[x]] = BLACK],
              w |-> T2.right[T2.parent[x]]] : T2 \in S2}
      S4 == {[s.T EXCEPT !.color[s.T.right[s.w]] = BLACK] : s \in S3}
      S5 == {left_rotate(T4, T4.parent[x]) : T4 \in S4}
  IN  The({[T |-> T5, x |-> T5.root] : T5 \in S5})

\* fix_delete, x a right child, cases 3 and 4 (lines 280-290)
fix_delete_right_34(T, x) ==
  LET w0 == T.left[T.parent[x]]
      S1 == {IF T.color[T.left[w0]] = BLACK
             THEN The({left_rotate(Tb, w0) :
                         Tb \in {[Ta EXCEPT !.color[w0] = RED] :
                         Ta \in {[T EXCEPT !.color[T.right[w0]] = BLACK]}}})
             ELSE T}
      S2 == {[T1 EXCEPT !.color[T1.left[T1.parent[x]]] =
                           T1.color[T1.parent[x]]] : T1 \in S1}
      S3 == {[T |-> [T2 EXCEPT !.color[T2.parent[x]] = BLACK],
              w |-> T2.left[T2.parent[x]]] : T2 \in S2}
      S4 == {[s.T EXCEPT !.color[s.T.left[s.w]] = BLACK] : s \in S3}
      S5 == {right_rotate(T4, T4.parent[x]) : T4 \in S4}
  IN  The({[T |-> T5, x |-> T5.root] : T5 \in S5})

\* one iteration of the while loop of fix_delete: the tree and the x it leaves
fix_delete_step(T, x) ==
  IF x = T.left[T.parent[x]]
  THEN LET w0 == T.right[T.parent[x]]
           \* case 1
           S1 == {IF T.color[w0] = RED
                  THEN The({left_rotate(Tb, Tb.parent[x]) :
                              Tb \in {[Ta EXCEPT !.color[Ta.parent[x]] = RED] :
                              Ta \in {[T EXCEPT !.color[w0] = BLACK]}}})
                  ELSE T}
           \* w is x.parent.right, re-read by line 250 after case 1 and the
           \* same node as before without it
           S2 == {[T |-> T1, w |-> T1.right[T1.parent[x]]] : T1 \in S1}
       IN  The({IF /\ s.T.color[s.T.left[s.w]] = BLACK
                   /\ s.T.color[s.T.right[s.w]] = BLACK
                THEN The({[T |-> T2, x |-> T2.parent[x]] :
                            T2 \in {[s.T EXCEPT !.color[s.w] = RED]}})
                ELSE fix_delete_left_34(s.T, x) : s \in S2})
  ELSE LET w0 == T.left[T.parent[x]]
           S1 == {IF T.color[w0] = RED
                  THEN The({right_rotate(Tb, Tb.parent[x]) :
                              Tb \in {[Ta EXCEPT !.color[Ta.parent[x]] = RED] :
                              Ta \in {[T EXCEPT !.color[w0] = BLACK]}}})
                  ELSE T}
           S2 == {[T |-> T1, w |-> T1.left[T1.parent[x]]] : T1 \in S1}
       IN  The({IF /\ s.T.color[s.T.left[s.w]] = BLACK
                   /\ s.T.color[s.T.right[s.w]] = BLACK
                THEN The({[T |-> T2, x |-> T2.parent[x]] :
                            T2 \in {[s.T EXCEPT !.color[s.w] = RED]}})
                ELSE fix_delete_right_34(s.T, x) : s \in S2})

\* the guard of the while loop of fix_delete
fix_delete_guard(T, x) == x /= nil /\ T.color[x] = BLACK

\* fix_delete without its last statement, x.color = 0
RECURSIVE fix_delete_uncoloured(_, _)
fix_delete_uncoloured(T, x) ==
  IF fix_delete_guard(T, x)
  THEN The({fix_delete_uncoloured(s.T, s.x) : s \in {fix_delete_step(T, x)}})
  ELSE T

RECURSIVE fix_delete(_, _)
fix_delete(T, x) ==
  IF fix_delete_guard(T, x)
  THEN The({fix_delete(s.T, s.x) : s \in {fix_delete_step(T, x)}})
  ELSE [T EXCEPT !.color[x] = BLACK]

\* delete_node_helper for a z with two children (lines 223-236), with y the
\* minimum of z.right and x its right child
delete_two_children(T, z, y, x) ==
  LET S1 == {IF T.parent[y] = z
             THEN [T EXCEPT !.parent[x] = y]
             ELSE The({[U2 EXCEPT !.parent[U2.right[y]] = y] :
                         U2 \in {[U1 EXCEPT !.right[y] = U1.right[z]] :
                         U1 \in {rb_transplant(T, y, T.right[y])}}})}
      S2 == {rb_transplant(T1, z, y) : T1 \in S1}
      S3 == {[T2 EXCEPT !.left[y] = T2.left[z]] : T2 \in S2}
      S4 == {[T3 EXCEPT !.parent[T3.left[y]] = y] : T3 \in S3}
  IN  The({[T4 EXCEPT !.color[y] = T4.color[z]] : T4 \in S4})

\* delete_node_helper up to its last test, for a z with at most one child
\* (lines 214-221): the tree, x and y_original_color it reaches line 238 with
delete_splice_one(T, z) ==
  IF T.left[z] = nil
  THEN [T |-> rb_transplant(T, z, T.right[z]), x |-> T.right[z],
        y_original_color |-> T.color[z]]
  ELSE [T |-> rb_transplant(T, z, T.left[z]), x |-> T.left[z],
        y_original_color |-> T.color[z]]

\* the same for a z with two children (lines 222-236), y the node
\* minimum(z.right) returned
delete_splice_two(T, z, y) ==
  [T |-> delete_two_children(T, z, y, T.right[y]), x |-> T.right[y],
   y_original_color |-> T.color[y]]

\* delete_node_helper up to its last test
delete_splice(T, z) ==
  IF T.left[z] = nil \/ T.right[z] = nil THEN delete_splice_one(T, z)
  ELSE The({delete_splice_two(T, z, y) : y \in {minimum(T, T.right[z])}})

delete_node_helper(T, z) ==
  The({IF r.y_original_color = BLACK THEN fix_delete(r.T, r.x) ELSE r.T :
         r \in {delete_splice(T, z)}})

AbsentMsg == "Key is not in the tree"

\* delete_node without the test of what find returned
delete_node_nocheck(T, key) ==
  The({[T |-> delete_node_helper(T, z), ret |-> None, out |-> ""] :
         z \in {find(T, key)}})

\* delete_node without the message for a key that is not in the tree
delete_node_silent(T, key) ==
  The({IF z = nil THEN [T |-> T, ret |-> None, out |-> ""]
       ELSE [T |-> delete_node_helper(T, z), ret |-> None, out |-> ""] :
         z \in {find(T, key)}})

\* delete_node(key): the tree it leaves, what it returns and what it prints
delete_node(T, key) ==
  The({IF z = nil THEN [T |-> T, ret |-> None, out |-> AbsentMsg]
       ELSE [T |-> delete_node_helper(T, z), ret |-> None, out |-> ""] :
         z \in {find(T, key)}})

(* ---------------------------- deletion as specified -------------------- *)
\* the guard of the loop of deleteFixup: x is not root and x is BLACK
deleteFixup_guard(T, x) == x /= T.root /\ T.color[x] = BLACK

\* deleteFixup(x): the cases of fix_delete under that guard, then x is made
\* BLACK
RECURSIVE deleteFixup(_, _)
deleteFixup(T, x) ==
  IF deleteFixup_guard(T, x)
  THEN The({deleteFixup(s.T, s.x) : s \in {fix_delete_step(T, x)}})
  ELSE [T EXCEPT !.color[x] = BLACK]

\* the removal procedure on node z: the splice of delete_node_helper, then
\* deleteFixup(x) when the colour removed was BLACK
removal(T, z) ==
  The({IF r.y_original_color = BLACK THEN deleteFixup(r.T, r.x) ELSE r.T :
         r \in {delete_splice(T, z)}})

(* ---------------------------- the program ------------------------------ *)
\* the non-sentinel nodes of S and their non-sentinel children
WithChildren(T, S) ==
  (S \cup {T.left[i] : i \in S} \cup {T.right[i] : i \in S}) \ {nil}

\* the non-sentinel nodes reachable from the nodes of S by left and right
\* links, whatever shape the links have
RECURSIVE Descendants(_, _)
Descendants(T, S) ==
  The({IF S2 = S THEN S ELSE Descendants(T, S2) : S2 \in {WithChildren(T, S)}})

\* the non-sentinel nodes reachable from root
TreeNodes(T) == Descendants(T, {T.root} \ {nil})

\* between two calls no call has local variables
NoLocals == [key |-> 0, x |-> nil, y |-> nil, z |-> nil]

Init ==
  /\ tree = EmptyTree
  /\ present = {}
  /\ nops = 0
  /\ op = "__init__"
  /\ ret = None
  /\ out = ""
  /\ pc = "idle"
  /\ local = NoLocals

\* a call rbt.insert(k), among the first b calls
Insert(k, b) ==
  /\ nops < b
  /\ \E r \in {insert(tree, k)} :
        /\ \E T \in {Collect(r.T)} : tree' = T
        /\ ret' = r.ret
        /\ out' = r.out
  /\ present' = present \cup {k}
  /\ nops' = nops + 1
  /\ op' = "insert"
  /\ UNCHANGED <<pc, local>>

\* a call rbt.delete_node(k), among the first b calls
Delete(k, b) ==
  /\ nops < b
  /\ \E r \in {delete_node(tree, k)} :
        /\ \E T \in {Collect(r.T)} : tree' = T
        /\ ret' = r.ret
        /\ out' = r.out
  /\ present' = present \ {k}
  /\ nops' = nops + 1
  /\ op' = "delete_node"
  /\ UNCHANGED <<pc, local>>

\* a call of a query: it returns a node and prints nothing
Query(name, result) ==
  /\ op' = name
  /\ ret' = result
  /\ out' = ""
  /\ UNCHANGED <<tree, present, nops, pc, local>>

Find(k) == Query("find", find(tree, k))

Minimum(x) == Query("minimum", minimum(tree, x))

Maximum(x) == Query("maximum", maximum(tree, x))

Successor(x) == Query("successor", successor(tree, x))

Predecessor(x) == Query("predecessor", predecessor(tree, x))

InsertOp == \E k \in Keys : Insert(k, MaxOps)
DeleteOp == \E k \in Keys : Delete(k, MaxOps)

Next == InsertOp \/ DeleteOp

\* every sequence of at most MaxOps insert and delete_node calls
Spec == Init /\ [][Next]_vars

\* the calls that print no message: insert of a key the tree does not hold,
\* delete_node of a key it holds
InsertDeep == \E k \in Keys : Insert(k, MaxOpsDeep) /\ out' = ""
DeleteDeep == \E k \in Keys : Delete(k, MaxOpsDeep) /\ out' = ""

NextDeep == InsertDeep \/ DeleteDeep

\* every sequence of at most MaxOpsDeep insert and delete_node calls that
\* each change the tree
SpecDeep == Init /\ [][NextDeep]_vars

InsertQ == \E k \in Keys : Insert(k, MaxOpsQ)
DeleteQ == \E k \in Keys : Delete(k, MaxOpsQ)
FindQ == \E k \in Keys : Find(k)
\* the nodes a caller can pass: the non-sentinel nodes of the tree, and root
\* (the sentinel when the tree is empty) to minimum and maximum
MinimumQ == \E x \in TreeNodes(tree) \cup {tree.root} : Minimum(x)
MaximumQ == \E x \in TreeNodes(tree) \cup {tree.root} : Maximum(x)
SuccessorQ == \E x \in TreeNodes(tree) : Successor(x)
PredecessorQ == \E x \in TreeNodes(tree) : Predecessor(x)

NextQ ==
  \/ InsertQ \/ DeleteQ
  \/ FindQ \/ MinimumQ \/ MaximumQ \/ SuccessorQ \/ PredecessorQ

\* every sequence of at most MaxOpsQ insert and delete_node calls with any
\* number of queries between them
SpecQ == Init /\ [][NextQ]_vars

(* ---------------------------- scripted callers ------------------------- *)
Call(name, key) == [op |-> name, key |-> key]

\* the calls of the driver at the end of the file, in its order
Driver ==
  <<Call("insert", 8), Call("insert", 18), Call("insert", 5),
    Call("insert", 15), Call("insert", 17), Call("insert", 25),
    Call("insert", 40), Call("insert", 80),
    Call("delete_node", 25), Call("delete_node", 100)>>

\* the keys a caller that starts with the calls of script can pass to method
\* name at its next call: the key the script says while the script lasts, any
\* key of Keys after it
ScriptKeys(script, name) ==
  IF nops < Len(script)
  THEN IF script[nops + 1].op = name THEN {script[nops + 1].key} ELSE {}
  ELSE Keys

InsertDriver == \E k \in ScriptKeys(Driver, "insert") : Insert(k, MaxOpsDriver)
DeleteDriver ==
  \E k \in ScriptKeys(Driver, "delete_node") : Delete(k, MaxOpsDriver)

NextDriver == InsertDriver \/ DeleteDriver

\* the driver's calls followed by any insert and delete_node calls, at most
\* MaxOpsDriver calls in all
SpecDriver == Init /\ [][NextDriver]_vars

(* ---------------------------- rotations called from outside ------------ *)
\* a call of a rotation, among the first b calls, that leaves the tree T: it
\* returns nothing and prints nothing
Rotate(name, T, b) ==
  /\ nops < b
  /\ \E U \in {Collect(T)} : tree' = U
  /\ nops' = nops + 1
  /\ op' = name
  /\ ret' = None
  /\ out' = ""
  /\ UNCHANGED <<present, pc, local>>

InsertRotate == \E k \in Keys : Insert(k, MaxOpsRotate)
DeleteRotate == \E k \in Keys : Delete(k, MaxOpsRotate)
\* left_rotate(x) is called on a node x with a right child
LeftRotate ==
  \E x \in TreeNodes(tree) :
     /\ tree.right[x] /= nil
     /\ Rotate("left_rotate", left_rotate(tree, x), MaxOpsRotate)
\* right_rotate(y) is called on a node y with a left child
RightRotate ==
  \E y \in TreeNodes(tree) :
     /\ tree.left[y] /= nil
     /\ Rotate("right_rotate", right_rotate(tree, y), MaxOpsRotate)

NextRotate == InsertRotate \/ DeleteRotate \/ LeftRotate \/ RightRotate

\* every sequence of at most MaxOpsRotate insert, delete_node, left_rotate
\* and right_rotate calls
SpecRotate == Init /\ [][NextRotate]_vars

(* ---------------------------- the calls, loop by loop ------------------ *)
\* The actions below run insert and delete_node one loop iteration at a
\* time: pc names the loop the call is in and local holds its variables.

\* the call in progress returns, having printed output
Return(T, output) ==
  /\ \E U \in {Collect(T)} : tree' = U
  /\ ret' = None
  /\ out' = output
  /\ pc' = "idle"
  /\ local' = NoLocals
  /\ UNCHANGED <<present, nops, op>>

\* the call in progress moves to loop l with the tree T and the locals L
Goto(l, T, L) ==
  /\ tree' = T
  /\ pc' = l
  /\ local' = L
  /\ UNCHANGED <<present, nops, op, ret, out>>

\* rbt.insert(k) is called, among the first b calls: lines 112-119
InsertCall(k, b) ==
  /\ pc = "idle"
  /\ nops < b
  /\ \E z \in {Alloc(tree, k)} :
        /\ tree' = insert_new(tree, k, z)
        /\ local' = [key |-> k, x |-> tree.root, y |-> nil, z |-> z]
  /\ pc' = "insert_descent"
  /\ present' = present \cup {k}
  /\ nops' = nops + 1
  /\ op' = "insert"
  /\ ret' = None
  /\ out' = ""

\* one iteration of the descent of insert (lines 120-128)
InsertDescentStep ==
  /\ pc = "insert_descent"
  /\ local.x /= nil
  /\ IF local.key < tree.key[local.x]
     THEN Goto(pc, tree,
               [local EXCEPT !.y = local.x, !.x = tree.left[local.x]])
     ELSE IF local.key > tree.key[local.x]
          THEN Goto(pc, tree,
                    [local EXCEPT !.y = local.x, !.x = tree.right[local.x]])
          ELSE Return(tree, DupMsg)

\* the descent of insert ends (lines 129-138)
InsertDescentEnd ==
  /\ pc = "insert_descent"
  /\ local.x = nil
  /\ \E T \in {insert_attach(tree, local.z, local.y)} :
        IF local.y = nil THEN Return(T, "")
        ELSE Goto("insert_fixup", T, local)

\* one iteration of the loop of insert_fixup (lines 142-173)
InsertFixupStep ==
  /\ pc = "insert_fixup"
  /\ tree.color[tree.parent[local.z]] = RED
  /\ \E s \in {insert_fixup_step(tree, local.z)} :
        Goto(pc, s.T, [local EXCEPT !.z = s.z])

\* the loop of insert_fixup ends (line 175)
InsertFixupEnd ==
  /\ pc = "insert_fixup"
  /\ tree.color[tree.parent[local.z]] /= RED
  /\ Return([tree EXCEPT !.color[tree.root] = BLACK], "")

\* rbt.delete_node(k) is called, among the first b calls: find is entered
\* (lines 207, 193-196)
DeleteCall(k, b) ==
  /\ pc = "idle"
  /\ nops < b
  /\ pc' = "find"
  /\ local' = [NoLocals EXCEPT !.key = k, !.x = tree.root]
  /\ present' = present \ {k}
  /\ nops' = nops + 1
  /\ op' = "delete_node"
  /\ ret' = None
  /\ out' = ""
  /\ UNCHANGED tree

\* one more call of find_helper, on a child of node x (lines 201-204)
FindStep ==
  /\ pc = "find"
  /\ local.x /= nil
  /\ local.key /= tree.key[local.x]
  /\ IF local.key < tree.key[local.x]
     THEN Goto(pc, tree, [local EXCEPT !.x = tree.left[local.x]])
     ELSE Goto(pc, tree, [local EXCEPT !.x = tree.right[local.x]])

\* delete_node_helper has spliced the node out (line 238): fix_delete(x) is
\* called or the call returns
AfterSplice(r) ==
  IF r.y_original_color = BLACK
  THEN Goto("fix_delete", r.T, [local EXCEPT !.x = r.x])
  ELSE Return(r.T, "")

\* find_helper returns node x (lines 199-200): delete_node prints its message
\* for the sentinel, and calls delete_node_helper(x) otherwise (lines 208-223)
FindEnd ==
  /\ pc = "find"
  /\ local.x = nil \/ local.key = tree.key[local.x]
  /\ IF local.x = nil THEN Return(tree, AbsentMsg)
     ELSE IF tree.left[local.x] = nil \/ tree.right[local.x] = nil
          THEN \E r \in {delete_splice_one(tree, local.x)} : AfterSplice(r)
          ELSE Goto("minimum", tree,
                    [local EXCEPT !.z = local.x, !.y = tree.right[local.x]])

\* one iteration of the loop of minimum (lines 52-53)
MinimumStep ==
  /\ pc = "minimum"
  /\ tree.left[local.y] /= nil
  /\ Goto(pc, tree, [local EXCEPT !.y = tree.left[local.y]])

\* minimum returns y (line 54) and delete_node_helper goes on (lines 224-238)
MinimumEnd ==
  /\ pc = "minimum"
  /\ tree.left[local.y] = nil
  /\ \E r \in {delete_splice_two(tree, local.z, local.y)} : AfterSplice(r)

\* one iteration of the loop of fix_delete (lines 243-290)
FixDeleteStep ==
  /\ pc = "fix_delete"
  /\ fix_delete_guard(tree, local.x)
  /\ \E s \in {fix_delete_step(tree, local.x)} :
        Goto(pc, s.T, [local EXCEPT !.x = s.x])

\* the loop of fix_delete ends (line 292)
FixDeleteEnd ==
  /\ pc = "fix_delete"
  /\ ~fix_delete_guard(tree, local.x)
  /\ Return([tree EXCEPT !.color[local.x] = BLACK], "")

\* a caller's calls that leave keys on both sides of the root deleted and
\* inserted again
Churn ==
  <<Call("insert", 1), Call("insert", 6), Call("insert", 7),
    Call("insert", 2), Call("delete_node", 2), Call("delete_node", 1),
    Call("insert", 5), Call("insert", 2), Call("insert", 1),
    Call("delete_node", 1), Call("delete_node", 2), Call("insert", 4),
    Call("delete_node", 5), Call("insert", 1), Call("insert", 3),
    Call("insert", 2)>>

InsertSteps == \E k \in ScriptKeys(Churn, "insert") : InsertCall(k, MaxOpsSteps)
DeleteSteps ==
  \E k \in ScriptKeys(Churn, "delete_node") : DeleteCall(k, MaxOpsSteps)

\* a step of the call in progress
Running ==
  \/ InsertDescentStep \/ InsertDescentEnd
  \/ InsertFixupStep \/ InsertFixupEnd
  \/ FindStep \/ FindEnd
  \/ MinimumStep \/ MinimumEnd
  \/ FixDeleteStep \/ FixDeleteEnd

NextSteps == InsertSteps \/ DeleteSteps \/ Running

\* the calls of Churn followed by any insert and delete_node calls, at most
\* MaxOpsSteps calls in all, each run loop iteration by loop iteration
SpecSteps == Init /\ [][NextSteps]_vars

\* the same, the interpreter never stopping in the middle of a call
SpecStepsFair == SpecSteps /\ WF_vars(Running)

(* ---------------------------- properties ------------------------------- *)
\* the number of BLACK non-sentinel nodes on each downward path from node n
\* to a sentinel leaf, n included
RECURSIVE BlackCounts(_, _)
BlackCounts(T, n) ==
  IF n = nil THEN {0}
  ELSE {c + (IF T.color[n] = BLACK THEN 1 ELSE 0) :
          c \in BlackCounts(T, T.left[n]) \cup BlackCounts(T, T.right[n])}

\* the keys met by an in-order walk of the subtree hanging from node n
RECURSIVE InOrder(_, _)
InOrder(T, n) ==
  IF n = nil THEN <<>>
  ELSE InOrder(T, T.left[n]) \o <<T.key[n]>> \o InOrder(T, T.right[n])

\* the elements of a finite set of integers in increasing order
RECURSIVE SortedSeq(_)
SortedSeq(S) ==
  IF S = {} THEN <<>>
  ELSE LET m == CHOOSE a \in S : \A b \in S : a <= b
       IN  <<m>> \o SortedSeq(S \ {m})

\* the tree holds a node with key k
Contains(T, k) == \E n \in TreeNodes(T) : T.key[n] = k

\* root and every field of every non-sentinel node are the same in T and U
SameTree(T, U) ==
  /\ T.root = U.root
  /\ TreeNodes(T) = TreeNodes(U)
  /\ \A n \in TreeNodes(T) :
        /\ T.key[n] = U.key[n]
        /\ T.color[n] = U.color[n]
        /\ T.parent[n] = U.parent[n]
        /\ T.left[n] = U.left[n]
        /\ T.right[n] = U.right[n]

Min2(a, b) == IF a <= b THEN a ELSE b

\* the number of nodes on the shortest downward path from node n to a
\* sentinel leaf (height is the number on the longest)
RECURSIVE ShortestPath(_, _)
ShortestPath(T, n) ==
  IF n = nil THEN 0
  ELSE Min2(ShortestPath(T, T.left[n]), ShortestPath(T, T.right[n])) + 1

\* the node of the tree with the smallest key greater than that of x, or the
\* sentinel when there is none
NextNode(T, x) ==
  LET G == {n \in TreeNodes(T) : T.key[n] > T.key[x]}
  IN  IF G = {} THEN nil
      ELSE CHOOSE n \in G : \A m \in G : T.key[n] <= T.key[m]

\* the node of the tree with the largest key smaller than that of x, or the
\* sentinel when there is none
PrevNode(T, x) ==
  LET L == {n \in TreeNodes(T) : T.key[n] < T.key[x]}
  IN  IF L = {} THEN nil
      ELSE CHOOSE n \in L : \A m \in L : T.key[n] >= T.key[m]

\* C1: after every sequence of insert and delete_node calls, every downward
\* path from a node of the tree to a sentinel leaf passes through the same
\* number of BLACK nodes.
C1_BlackHeight ==
  \A n \in TreeNodes(tree) : Cardinality(BlackCounts(tree, n)) = 1

\* C2: after every sequence of insert and delete_node calls, both children of
\* a RED node of the tree, the sentinel included, are BLACK.
C2_NoRedRed ==
  \A n \in TreeNodes(tree) :
     tree.color[n] = RED =>
        /\ tree.color[tree.left[n]] = BLACK
        /\ tree.color[tree.right[n]] = BLACK

\* C3: after every sequence of insert and delete_node calls, the in-order walk
\* from root yields the keys inserted and not deleted since, each once, in
\* increasing order.
C3_InOrderSorted == InOrder(tree, tree.root) = SortedSeq(present)

\* C4: after every sequence of insert and delete_node calls, find(k) returns a
\* non-sentinel node with key k when k was inserted and not deleted since, and
\* the sentinel otherwise.
C4_Membership ==
  \A k \in Keys :
     LET f == find(tree, k)
     IN  IF k \in present THEN f /= nil /\ tree.key[f] = k ELSE f = nil

\* C5: after every public operation the sentinel is BLACK and its left and
\* right links refer to the sentinel itself.
C5_Sentinel ==
  /\ tree.color[nil] = BLACK
  /\ tree.left[nil] = nil
  /\ tree.right[nil] = nil

\* C6: insert(k) on a tree that contains k (a node under root holds k, and k
\* was inserted and not deleted since) leaves root and every field of every
\* non-sentinel node as they were.
C6_DuplicateInsert ==
  pc = "idle" =>
     \A k \in {tree.key[n] : n \in TreeNodes(tree)} \cap present :
        SameTree(tree, Collect(insert(tree, k).T))

\* C7: delete_node(k) on a tree that does not contain k leaves root and every
\* field of every non-sentinel node as they were.
C7_AbsentDelete ==
  \A k \in Keys :
     ~Contains(tree, k) => SameTree(tree, Collect(delete_node(tree, k).T))

\* C7 witness: a delete_node of a key the tree does not hold has returned, the
\* tree holding other keys.
C7_Witness ==
  /\ op = "delete_node"
  /\ out = AbsentMsg
  /\ Cardinality(TreeNodes(tree)) >= 3

\* what a successful call hands back to its caller
ReturnOfSuccess == insert(EmptyTree, 1).ret

\* C8 as claimed: what the caller receives from a failed insert or delete_node
\* differs from what it receives from a successful one.
C8_FailureReturned ==
  (op \in {"insert", "delete_node"} /\ out /= "") => ret /= ReturnOfSuccess

\* C8 as amended: every insert and delete_node call returns the same value,
\* None; a call that rejects its key (the search from root meets the key in
\* insert, meets the sentinel in delete_node) is told apart only by the
\* message it prints, every other call printing nothing.
C8_FailurePrinted ==
  \A k \in Keys :
     LET i == insert(tree, k)
         d == delete_node(tree, k)
     IN  /\ i.ret = None
         /\ d.ret = None
         /\ i.out = (IF find(tree, k) /= nil THEN DupMsg ELSE "")
         /\ d.out = (IF find(tree, k) /= nil THEN "" ELSE AbsentMsg)

\* C8 witness: a failed call has returned None after printing its message.
C8_Witness ==
  /\ op \in {"insert", "delete_node"}
  /\ out \in {DupMsg, AbsentMsg}
  /\ ret = None
  /\ tree.root /= nil

\* C9: after every sequence of insert and delete_node calls, the longest
\* downward path from a node of the tree to a sentinel leaf is at most twice
\* as long as the shortest.
C9_Balanced ==
  \A n \in TreeNodes(tree) : height(tree, n) <= 2 * ShortestPath(tree, n)

\* C10: in every reachable tree, successor(x) of a node x of the tree is the
\* node with the smallest key greater than x.key, predecessor(x) the node with
\* the largest key smaller than x.key, and each is the sentinel when there is
\* no such key.
C10_SuccessorPredecessor ==
  pc = "idle" =>
     \A x \in TreeNodes(tree) :
        /\ successor(tree, x) = NextNode(tree, x)
        /\ predecessor(tree, x) = PrevNode(tree, x)

\* the subtree hanging from node n: key, colour, left subtree, right subtree,
\* and the empty tuple for the sentinel
RECURSIVE Shape(_, _)
Shape(T, n) ==
  IF n = nil THEN <<>>
  ELSE <<T.key[n], T.color[n], Shape(T, T.left[n]), Shape(T, T.right[n])>>

\* a node with no children
Leaf(key, color) == <<key, color, <<>>, <<>>>>

\* red-black properties 1-5 on a binary search tree whose links agree
IsRedBlack(T) ==
  /\ T.color[T.root] = BLACK
  /\ T.color[nil] = BLACK /\ T.left[nil] = nil /\ T.right[nil] = nil
  /\ T.parent[T.root] = nil
  /\ \A N \in {TreeNodes(T)} :
        /\ \A n \in N :
              /\ \A c \in {T.left[n], T.right[n]} \ {nil} : T.parent[c] = n
              /\ T.color[n] = RED =>
                    T.color[T.left[n]] = BLACK /\ T.color[T.right[n]] = BLACK
              /\ Cardinality(BlackCounts(T, n)) = 1
        /\ InOrder(T, T.root) = SortedSeq({T.key[n] : n \in N})

\* the links of the nodes of N that lead to node c
LinksTo(T, N, c) ==
  {e \in N \X {"left", "right"} :
     (IF e[2] = "left" THEN T.left[e[1]] ELSE T.right[e[1]]) = c}

\* root.parent is the sentinel, every non-sentinel child c of a node n under
\* root has c.parent == n, and exactly one link leads to each node under root
\* other than root, none to root
LinksFormTree(T) ==
  /\ T.parent[T.root] = nil
  /\ \A N \in {TreeNodes(T)} :
        \A n \in N :
           /\ \A c \in {T.left[n], T.right[n]} \ {nil} : T.parent[c] = n
           /\ Cardinality(LinksTo(T, N, n)) = (IF n = T.root THEN 0 ELSE 1)

\* the tree U is tree T after a rotation at node n that promoted its child c:
\* the in-order key sequence is the same, no key and no color has changed,
\* root has become c when n was root and is what it was otherwise
RotationKeeps(T, U, n, c) ==
  /\ InOrder(U, U.root) = InOrder(T, T.root)
  /\ U.key = T.key
  /\ U.color = T.color
  /\ U.root = (IF n = T.root THEN c ELSE T.root)

\* C11: in every tree reachable from the empty tree by insert and delete_node
\* calls, the empty tree included, successor(maximum(root)) and
\* predecessor(minimum(root)) are the sentinel.
C11_EndsHaveNoNeighbour ==
  pc = "idle" =>
     /\ successor(tree, maximum(tree, tree.root)) = nil
     /\ predecessor(tree, minimum(tree, tree.root)) = nil

\* C15: after every insert and delete_node call, root is BLACK: the sentinel,
\* or a BLACK node whose parent is the sentinel.
C15_RootBlack ==
  pc = "idle" =>
     /\ tree.color[tree.root] = BLACK
     /\ tree.parent[tree.root] = nil \/ tree.root = nil

\* C16: while an insert or delete_node call runs, the sentinel is never RED and
\* its left and right never refer to another node.
C16_SentinelFrame ==
  pc /= "idle" =>
     /\ tree.color[nil] = BLACK
     /\ tree.left[nil] = nil
     /\ tree.right[nil] = nil

\* C18: every insert and delete_node call returns.
C18_Terminates == (pc /= "idle") ~> (pc = "idle")

\* C19: on entry to every iteration of the loop of insert_fixup, z and
\* z.parent are RED nodes other than the sentinel and z.parent.parent is not
\* the sentinel.
C19_FixupEntry ==
  (pc = "insert_fixup" /\ tree.color[tree.parent[local.z]] = RED) =>
     /\ local.z /= nil
     /\ tree.color[local.z] = RED
     /\ tree.parent[local.z] /= nil
     /\ tree.parent[tree.parent[local.z]] /= nil

\* C20: after every insert and delete_node call, root.parent is the sentinel,
\* every non-sentinel child c of a node n reachable from root has
\* c.parent == n, and exactly one link leads to each reachable node other
\* than root, none to root.
C20_LinksFormTree == pc = "idle" => LinksFormTree(tree)

\* C12: the driver's eight insert calls on the empty tree leave root 17 BLACK,
\* its left child 8 RED over 5 BLACK and 15 BLACK, its right child 25 RED over
\* 18 BLACK and 40 BLACK, 40 with no left child and the right child 80 RED.
C12_DriverInserts ==
  nops = 8 =>
     Shape(tree, tree.root) =
        <<17, BLACK,
          <<8, RED, Leaf(5, BLACK), Leaf(15, BLACK)>>,
          <<25, RED, Leaf(18, BLACK), <<40, BLACK, <<>>, Leaf(80, RED)>>>>>>

\* C12 witness: the eighth insert of the driver has returned.
C12_Witness ==
  /\ nops = 8
  /\ op = "insert"
  /\ out = ""
  /\ present = {5, 8, 15, 17, 18, 25, 40, 80}

\* C13: delete_node(25) on that tree leaves root 17 BLACK, its left subtree as
\* it was, and its right child 40 RED over 18 BLACK and 80 BLACK.
C13_DriverDelete ==
  nops = 9 =>
     Shape(tree, tree.root) =
        <<17, BLACK,
          <<8, RED, Leaf(5, BLACK), Leaf(15, BLACK)>>,
          <<40, RED, Leaf(18, BLACK), Leaf(80, BLACK)>>>>

\* C13 witness: the driver's delete_node(25) has returned.
C13_Witness ==
  /\ nops = 9
  /\ op = "delete_node"
  /\ out = ""
  /\ present = {5, 8, 15, 17, 18, 40, 80}

\* C14: on every tree with the red-black properties and every key k in it,
\* delete_node(k) leaves the tree the specified removal leaves.
C14_DeleteAsSpecified ==
  IsRedBlack(tree) =>
     \A k \in Keys :
        Contains(tree, k) =>
           \A U \in {delete_node(tree, k).T} :
              \A V \in {removal(tree, find(tree, k))} :
                 Shape(U, U.root) = Shape(V, V.root)

====
